---- MODULE Spec2Model ----
(***************************************************************************)
(* A model of tetris.py: the well (the `locked` mapping), the falling and  *)
(* the next piece, the session counters and the frame loop of Tetris.run.  *)
(* Coordinates are (column, row) pairs <<x, y>>; rows grow downwards and   *)
(* rows below 0 are the spawn buffer above the visible well.               *)
(***************************************************************************)
EXTENDS Integers, Sequences, FiniteSets, TLC

\* ---------------------------------------------------------------- configuration
COLUMNS == 10
ROWS == 20

\* The value of an empty cell of the dense grid (Python's None).
None == "None"

PIECE_KEYS == <<"I", "J", "L", "O", "S", "T", "Z">>

\* The seven RGB triples, each written by the name its comment gives it.
COLORS == <<"cyan", "blue", "orange", "yellow", "green", "purple", "red">>

\* Rotation states per family; a row "0110" is the tuple <<0,1,1,0>>.
TETROMINOES ==
  [ I |-> << << <<0,0,0,0>>, <<1,1,1,1>>, <<0,0,0,0>>, <<0,0,0,0>> >>,
             << <<0,0,1,0>>, <<0,0,1,0>>, <<0,0,1,0>>, <<0,0,1,0>> >> >>,
    J |-> << << <<1,0,0>>, <<1,1,1>>, <<0,0,0>> >>,
             << <<0,1,1>>, <<0,1,0>>, <<0,1,0>> >>,
             << <<0,0,0>>, <<1,1,1>>, <<0,0,1>> >>,
             << <<0,1,0>>, <<0,1,0>>, <<1,1,0>> >> >>,
    L |-> << << <<0,0,1>>, <<1,1,1>>, <<0,0,0>> >>,
             << <<0,1,0>>, <<0,1,0>>, <<0,1,1>> >>,
             << <<0,0,0>>, <<1,1,1>>, <<1,0,0>> >>,
             << <<1,1,0>>, <<0,1,0>>, <<0,1,0>> >> >>,
    O |-> << << <<1,1>>, <<1,1>> >> >>,
    S |-> << << <<0,1,1>>, <<1,1,0>>, <<0,0,0>> >>,
             << <<0,1,0>>, <<0,1,1>>, <<0,0,1>> >> >>,
    T |-> << << <<0,1,0>>, <<1,1,1>>, <<0,0,0>> >>,
             << <<0,1,0>>, <<0,1,1>>, <<0,1,0>> >>,
             << <<0,0,0>>, <<1,1,1>>, <<0,1,0>> >>,
             << <<0,1,0>>, <<1,1,0>>, <<0,1,0>> >> >>,
    Z |-> << << <<1,1,0>>, <<0,1,1>>, <<0,0,0>> >>,
             << <<0,0,1>>, <<0,1,1>>, <<0,1,0>> >> >> ]

Families == {PIECE_KEYS[i] : i \in 1..Len(PIECE_KEYS)}

\* PIECE_KEYS.index(k), 0-based.
KeyIndex(k) == (CHOOSE i \in 1..Len(PIECE_KEYS) : PIECE_KEYS[i] = k) - 1

\* ---------------------------------------------------------------- helpers
\* The cells of a pattern placed at (offset_x, offset_y).
shape_cells(shape, offset_x, offset_y) ==
  { <<offset_x + (x - 1), offset_y + (y - 1)>> :
      <<x, y>> \in { c \in (1..Len(shape[1])) \X (1..Len(shape)) :
                       shape[c[2]][c[1]] = 1 } }

\* The dense ROWS x COLUMNS view of the mapping: grid[y][x], None where empty.
make_grid(locked_positions) ==
  [ y \in 0..(ROWS - 1) |->
      [ x \in 0..(COLUMNS - 1) |->
          IF <<x, y>> \in DOMAIN locked_positions
            THEN locked_positions[<<x, y>>] ELSE None ] ]

\* valid_space with the occupancy test made in every row.
valid_space_any_row(shape, offset_x, offset_y, locked) ==
  \A c \in shape_cells(shape, offset_x, offset_y) :
     /\ ~(c[1] < 0 \/ c[1] >= COLUMNS \/ c[2] >= ROWS)
     /\ ~(c \in DOMAIN locked)

valid_space(shape, offset_x, offset_y, locked) ==
  \A c \in shape_cells(shape, offset_x, offset_y) :
     /\ ~(c[1] < 0 \/ c[1] >= COLUMNS \/ c[2] >= ROWS)
     /\ ~(c[2] >= 0 /\ c \in DOMAIN locked)

\* ---------------------------------------------------------------- clear_lines
\* The rows of the dense grid that are fully occupied (lines_to_clear).
\* The rows with one empty cell at most.
lines_to_clear_nearly(grid) ==
  { y \in 0..(ROWS - 1) :
      Cardinality({ x \in 0..(COLUMNS - 1) : grid[y][x] = None }) <= 1 }

lines_to_clear(grid) ==
  { y \in 0..(ROWS - 1) : \A x \in 0..(COLUMNS - 1) : grid[y][x] /= None }

\* The deletion of a row that deletes nothing.
DeleteRow_none(locked, row) == locked

\* for x in range(COLUMNS): if (x, row) in locked: del locked[(x, row)]
DeleteRow(locked, row) ==
  [ c \in { d \in DOMAIN locked :
              ~(d[2] = row /\ d[1] \in 0..(COLUMNS - 1)) } |-> locked[c] ]

RECURSIVE DeleteRows(_, _)
DeleteRows(locked, rows) ==
  IF rows = {} THEN locked
  ELSE LET row == CHOOSE r \in rows : \A q \in rows : q <= r
       IN  DeleteRows(DeleteRow(locked, row), rows \ {row})

\* for x in range(COLUMNS): if (x, y) in locked:
\*     locked[(x, y + shift)] = locked.pop((x, y))
MoveRow(locked, y, shift) ==
  LET from == { d \in DOMAIN locked : d[2] = y /\ d[1] \in 0..(COLUMNS - 1) }
      to   == { <<d[1], y + shift>> : d \in from }
  IN  [ c \in to |-> locked[<<c[1], y>>] ] @@ [ c \in (DOMAIN locked \ from) |-> locked[c] ]

\* Row y shifted by the number of all cleared rows.
shift_all(y, cleared_rows) == Cardinality(cleared_rows)

\* shift = sum(1 for cleared in lines_to_clear if y < cleared)
shift(y, cleared_rows) == Cardinality({ cleared \in cleared_rows : y < cleared })

\* The shift loop, y running downwards from max(lines_to_clear) - 1 to 0.
RECURSIVE ShiftRows(_, _, _)
ShiftRows(locked, y, cleared_rows) ==
  IF y < 0 THEN locked
  ELSE ShiftRows(IF shift(y, cleared_rows) > 0
                   THEN MoveRow(locked, y, shift(y, cleared_rows)) ELSE locked,
                 y - 1, cleared_rows)

\* clear_lines returning the number of cells it deleted.
clear_lines_counts_cells(grid, locked) ==
  LET rows == lines_to_clear(grid)
  IN  IF rows = {}
        THEN [locked |-> locked, count |-> 0]
        ELSE LET top == CHOOSE r \in rows : \A q \in rows : q <= r
             IN  [locked |-> ShiftRows(DeleteRows(locked, rows), top - 1, rows),
                  count  |-> Cardinality(rows) * COLUMNS]

\* clear_lines(grid, locked): the mapping afterwards and the value returned.
clear_lines(grid, locked) ==
  LET rows == lines_to_clear(grid)
  IN  IF rows = {}
        THEN [locked |-> locked, count |-> 0]
        ELSE LET top == CHOOSE r \in rows : \A q \in rows : q <= r
             IN  [locked |-> ShiftRows(DeleteRows(locked, rows), top - 1, rows),
                  count  |-> Cardinality(rows)]

\* Piece.__init__ with the anchor row at the top of the well.
Piece_at_top(type_key) ==
  LET shape == TETROMINOES[type_key][1]
  IN  [ type     |-> type_key,
        rotation |-> 0,
        shape    |-> shape,
        x        |-> (COLUMNS \div 2) - (Len(shape[1]) \div 2),
        y        |-> 0 ]

\* ---------------------------------------------------------------- Piece
\* Piece(type_key): a piece at its spawn position.
Piece(type_key) ==
  LET shape == TETROMINOES[type_key][1]
  IN  [ type     |-> type_key,
        rotation |-> 0,
        shape    |-> shape,
        x        |-> (COLUMNS \div 2) - (Len(shape[1]) \div 2),
        y        |-> 0 - Len(shape) ]

\* Piece.color
Color(p) == COLORS[KeyIndex(p.type) + 1]

\* The offsets tried, in this order, when the turned pattern does not fit.
Kicks_right_first == <<1, -1, 2, -2>>

Kicks == <<-1, 1, -2, 2>>

\* The common body of rotate and rotate_ccw for the new rotation index.
Turn(p, rotation, locked) ==
  LET shape == TETROMINOES[p.type][rotation + 1]
      fits  == { i \in 1..Len(Kicks) : valid_space(shape, p.x + Kicks[i], p.y, locked) }
  IN  IF valid_space(shape, p.x, p.y, locked)
        THEN [piece |-> [p EXCEPT !.rotation = rotation, !.shape = shape], ok |-> TRUE]
      ELSE IF fits /= {}
        THEN LET i == CHOOSE j \in fits : \A k \in fits : j <= k
             IN  [piece |-> [p EXCEPT !.rotation = rotation, !.shape = shape,
                                      !.x = p.x + Kicks[i]],
                  ok |-> TRUE]
      ELSE [piece |-> p, ok |-> FALSE]

\* rotate stopping at the last rotation state instead of wrapping around.
rotate_clamped(p, locked) ==
  Turn(p, IF p.rotation + 1 < Len(TETROMINOES[p.type]) THEN p.rotation + 1
          ELSE p.rotation, locked)

\* Piece.rotate(locked): the piece afterwards and the value returned.
rotate(p, locked) ==
  Turn(p, (p.rotation + 1) % Len(TETROMINOES[p.type]), locked)

\* Piece.rotate_ccw(locked)
rotate_ccw(p, locked) ==
  Turn(p, (p.rotation - 1) % Len(TETROMINOES[p.type]), locked)

\* ---------------------------------------------------------------- floats
\* fall_speed is a Python float, an IEEE-754 double.  A double x >= 0 is the
\* natural number x * 2^57, written in four digits of base 2^19, lowest
\* first; every value the game computes is a whole number of these units.
\* Each operation is the exact one followed by rounding to 53 significant
\* bits, ties to even.
B == 2^19

Digits == 1..4

Zero == <<0, 0, 0, 0>>

\* The number of bits of n, 0 <= n < B.
RECURSIVE Bits(_)
Bits(n) == IF n = 0 THEN 0 ELSE 1 + Bits(n \div 2)

BitLen(a) ==
  IF a = Zero THEN 0
  ELSE LET i == CHOOSE j \in Digits : a[j] /= 0 /\ \A k \in Digits : k > j => a[k] = 0
       IN  19 * (i - 1) + Bits(a[i])

Less(a, b) ==
  \E i \in Digits : a[i] < b[i] /\ \A k \in Digits : k > i => a[k] = b[k]

\* a * k for a small natural k.
MulSmall(a, k) ==
  LET p1 == a[1] * k
      p2 == a[2] * k + (p1 \div B)
      p3 == a[3] * k + (p2 \div B)
      p4 == a[4] * k + (p3 \div B)
  IN  <<p1 % B, p2 % B, p3 % B, p4>>

\* a - b, for a >= b.
Minus(a, b) ==
  LET d1 == a[1] - b[1]
      w1 == IF d1 < 0 THEN 1 ELSE 0
      d2 == a[2] - b[2] - w1
      w2 == IF d2 < 0 THEN 1 ELSE 0
      d3 == a[3] - b[3] - w2
      w3 == IF d3 < 0 THEN 1 ELSE 0
  IN  <<d1 + w1 * B, d2 + w2 * B, d3 + w3 * B, a[4] - b[4] - w3>>

\* a + 1
Inc(a) ==
  LET s1 == a[1] + 1
      s2 == a[2] + (s1 \div B)
      s3 == a[3] + (s2 \div B)
  IN  <<s1 % B, s2 % B, s3 % B, a[4] + (s3 \div B)>>

Digit(a, i) == IF i \in Digits THEN a[i] ELSE 0

\* floor(a / 2^d) and a * 2^d (the latter for a result below 2^76).
Shr(a, d) ==
  LET q == d \div 19
      r == d % 19
  IN  [ i \in Digits |->
          (Digit(a, i + q) \div 2^r) + (Digit(a, i + q + 1) % 2^r) * 2^(19 - r) ]

Shl(a, d) ==
  LET q == d \div 19
      r == d % 19
  IN  [ i \in Digits |->
          (Digit(a, i - q) % 2^(19 - r)) * 2^r + (Digit(a, i - q - 1) \div 2^(19 - r)) ]

\* a, or a plus a non-zero fraction of a unit when `more`, rounded to 53
\* significant bits, ties to even.
Round53(a, more) ==
  LET d == BitLen(a) - 53
  IN  IF d <= 0 THEN a
      ELSE LET t    == Shr(a, d)
               low  == Minus(a, Shl(t, d))
               half == Shl(<<1, 0, 0, 0>>, d - 1)
               up   == \/ Less(half, low)
                       \/ low = half /\ (more \/ t[1] % 2 = 1)
           IN  Shl(IF up THEN Inc(t) ELSE t, d)

\* The double nearest to num / den, for 0 < num < den < 2^12: the quotient by
\* long division to 76 binary places, rounded.
Float(num, den) ==
  LET n4 == num * B
      n3 == (n4 % den) * B
      n2 == (n3 % den) * B
      n1 == (n2 % den) * B
      q  == <<n1 \div den, n2 \div den, n3 \div den, n4 \div den>>
  IN  Shr(Round53(q, n1 % den /= 0), 19)

\* 0.6, 0.05
BaseSpeed == Float(6, 10)
MinSpeed  == Float(5, 100)
Step      == Float(5, 100)

\* max(0.05, 0.6 - (level - 1) * 0.05)
new_fall_speed(lvl) ==
  LET product == Round53(MulSmall(Step, lvl - 1), FALSE)
  IN  IF Less(BaseSpeed, product) THEN MinSpeed
      ELSE LET difference == Round53(Minus(BaseSpeed, product), FALSE)
           IN  IF Less(difference, MinSpeed) THEN MinSpeed ELSE difference

\* int(fall_speed * 1000): the interval of the gravity check, in milliseconds.
interval(speed) == Round53(MulSmall(speed, 1000), FALSE)[4]

\* ---------------------------------------------------------------- session state
VARIABLES
  locked,       \* Tetris.locked: the mapping (x, y) -> color
  current,      \* Tetris.current
  next_piece,   \* Tetris.next_piece
  fall_speed,   \* Tetris.fall_speed
  score,        \* Tetris.score
  lines,        \* Tetris.lines
  level,        \* Tetris.level
  game_over,    \* Tetris.game_over
  phase,        \* where control is: "frame" (the event loop of run),
                \* "over" (the loop of show_game_over), "quit" (after sys.exit)
  last,         \* the input event handled last (a key, or the gravity step), what
                \* Piece.rotate returned for it, and how far it moved the piece
  lk,           \* the last call of lock_piece in this game: its caller, the piece it
                \* locked, the mapping after its merge loop, and the value
                \* clear_lines returned to it
  left,         \* the number of calls of lock_piece still followed
  probe         \* a call of a module-level function on its own: the function,
                \* its arguments and, once it has returned, its result

vars == <<locked, current, next_piece, fall_speed, score, lines, level,
          game_over, phase, last, lk, left, probe>>

session == <<locked, current, next_piece, fall_speed, score, lines, level, game_over>>

\* A run is followed for MaxLocks calls of lock_piece.
MaxLocks == 1

\* At the start of a game the next piece is of one of the first NextKinds
\* families of PIECE_KEYS.
NextKinds == 1

FirstNext == { PIECE_KEYS[i] : i \in 1..NextKinds }

\* score_table.get(cleared, 0)
score_table(cleared) ==
  CASE cleared = 1 -> 40
    [] cleared = 2 -> 100
    [] cleared = 3 -> 300
    [] cleared = 4 -> 1200
    [] OTHER -> 0

\* The merge loop setting game_over only for a piece wholly above the well.
merge_wholly_above(p, lkd) ==
  LET cells == shape_cells(p.shape, p.x, p.y)
      inside == { c \in cells : ~(c[2] < 0) }
  IN  [ locked    |-> [ c \in inside |-> Color(p) ] @@ lkd,
        game_over |-> \A c \in cells : c[2] < 0 ]

\* The merge loop writing every cell of the piece.
merge_every_cell(p, lkd) ==
  LET cells == shape_cells(p.shape, p.x, p.y)
  IN  [ locked    |-> [ c \in cells |-> Color(p) ] @@ lkd,
        game_over |-> \E c \in cells : c[2] < 0 ]

\* The merge loop of lock_piece: cells at rows >= 0 are written with the
\* piece's color, a cell at a row < 0 sets game_over.
merge(p, lkd) ==
  LET cells == shape_cells(p.shape, p.x, p.y)
      inside == { c \in cells : ~(c[2] < 0) }
  IN  [ locked    |-> [ c \in inside |-> Color(p) ] @@ lkd,
        game_over |-> \E c \in cells : c[2] < 0 ]

\* lock_piece scoring at the level reached by the clear.
lock_piece_new_level(p, s) ==
  LET m       == merge(p, s.locked)
      grid    == make_grid(m.locked)
      cl      == clear_lines(grid, m.locked)
      cleared == cl.count
      lines2  == s.lines + cleared
      level2  == (lines2 \div 10) + 1
  IN  [ locked     |-> cl.locked,
        game_over  |-> s.game_over \/ m.game_over,
        score      |-> IF cleared /= 0
                         THEN s.score + score_table(cleared) * level2 ELSE s.score,
        lines      |-> IF cleared /= 0 THEN lines2 ELSE s.lines,
        level      |-> IF cleared /= 0 THEN level2 ELSE s.level,
        fall_speed |-> IF cleared /= 0 THEN new_fall_speed(level2) ELSE s.fall_speed,
        merged     |-> m.locked,
        cleared    |-> cleared ]

\* lock_piece up to the hand-over of the next piece: the session fields it
\* assigns, from the piece p being locked.
lock_piece(p, s) ==
  LET m       == merge(p, s.locked)
      grid    == make_grid(m.locked)
      cl      == clear_lines(grid, m.locked)
      cleared == cl.count
      lines2  == s.lines + cleared
      level2  == (lines2 \div 10) + 1
  IN  [ locked     |-> cl.locked,
        game_over  |-> s.game_over \/ m.game_over,
        score      |-> IF cleared /= 0
                         THEN s.score + score_table(cleared) * s.level ELSE s.score,
        lines      |-> IF cleared /= 0 THEN lines2 ELSE s.lines,
        level      |-> IF cleared /= 0 THEN level2 ELSE s.level,
        fall_speed |-> IF cleared /= 0 THEN new_fall_speed(level2) ELSE s.fall_speed,
        merged     |-> m.locked,
        cleared    |-> cleared ]

\* hard_drop taking one downward step at most.
descend_one_step(p, lkd) ==
  IF valid_space(p.shape, p.x, p.y + 1, lkd) THEN [p EXCEPT !.y = p.y + 1] ELSE p

\* The loop of hard_drop: the piece after its last downward step.
RECURSIVE descend(_, _)
descend(p, lkd) ==
  IF valid_space(p.shape, p.x, p.y + 1, lkd)
    THEN descend([p EXCEPT !.y = p.y + 1], lkd)
    ELSE p

Session ==
  [ locked |-> locked, score |-> score, lines |-> lines, level |-> level,
    fall_speed |-> fall_speed, game_over |-> game_over ]

\* lock_piece drawing a new current piece instead of handing the next one on.
Lock_draws_current(p, by) ==
  \E r \in {lock_piece(p, Session)} :
      /\ locked' = r.locked
      /\ game_over' = r.game_over
      /\ score' = r.score
      /\ lines' = r.lines
      /\ level' = r.level
      /\ fall_speed' = r.fall_speed
      /\ \E key \in Families : current' = Piece(key)
      /\ \E key \in Families : next_piece' = Piece(key)
      /\ lk' = [by |-> by, piece |-> p, merged |-> r.merged, cleared |-> r.cleared]
      /\ left' = left - 1
      /\ UNCHANGED probe

\* The assignments of a lock_piece call on piece p, called from `by`; the new
\* next piece is of the family get_new_piece draws.
Lock(p, by) ==
  \E r \in {lock_piece(p, Session)} :
      /\ locked' = r.locked
      /\ game_over' = r.game_over
      /\ score' = r.score
      /\ lines' = r.lines
      /\ level' = r.level
      /\ fall_speed' = r.fall_speed
      /\ current' = next_piece
      /\ \E key \in Families : next_piece' = Piece(key)
      /\ lk' = [by |-> by, piece |-> p, merged |-> r.merged, cleared |-> r.cleared]
      /\ left' = left - 1
      /\ UNCHANGED probe

\* No call of lock_piece in this game yet.
NoLock == [by |-> "none"]

\* No function is being called on its own.
NoProbe == [fn |-> "none"]

\* An event that moved no piece and returned nothing.
Ev(e) == [ev |-> e, ret |-> "None", dx |-> 0, dy |-> 0]

\* An event after which the piece is q instead of p.
Moved(e, ret, p, q) == [ev |-> e, ret |-> ret, dx |-> q.x - p.x, dy |-> q.y - p.y]

Playing == phase = "frame" /\ left > 0

\* K_LEFT moving the piece without asking valid_space.
KeyLeft_unchecked ==
  /\ Playing
  /\ current' = [current EXCEPT !.x = current.x - 1]
  /\ last' = Moved("left", "None", current, current')
  /\ UNCHANGED <<locked, next_piece, fall_speed, score, lines, level, game_over,
                 phase, lk, left, probe>>

\* K_LEFT
KeyLeft ==
  /\ Playing
  /\ current' = IF valid_space(current.shape, current.x - 1, current.y, locked)
                  THEN [current EXCEPT !.x = current.x - 1] ELSE current
  /\ last' = Moved("left", "None", current, current')
  /\ UNCHANGED <<locked, next_piece, fall_speed, score, lines, level, game_over,
                 phase, lk, left, probe>>

\* K_RIGHT
KeyRight ==
  /\ Playing
  /\ current' = IF valid_space(current.shape, current.x + 1, current.y, locked)
                  THEN [current EXCEPT !.x = current.x + 1] ELSE current
  /\ last' = Moved("right", "None", current, current')
  /\ UNCHANGED <<locked, next_piece, fall_speed, score, lines, level, game_over,
                 phase, lk, left, probe>>

\* K_UP, K_x
KeyRotate ==
  /\ Playing
  /\ LET r == rotate(current, locked)
     IN  /\ current' = r.piece
         /\ last' = Moved("cw", IF r.ok THEN "True" ELSE "False", current, r.piece)
  /\ UNCHANGED <<locked, next_piece, fall_speed, score, lines, level, game_over,
                 phase, lk, left, probe>>

\* K_z
KeyRotateCcw ==
  /\ Playing
  /\ LET r == rotate_ccw(current, locked)
     IN  /\ current' = r.piece
         /\ last' = Moved("ccw", IF r.ok THEN "True" ELSE "False", current, r.piece)
  /\ UNCHANGED <<locked, next_piece, fall_speed, score, lines, level, game_over,
                 phase, lk, left, probe>>

\* K_DOWN handled as the gravity step is: a blocked piece is locked.
KeyDown_locks ==
  /\ Playing
  /\ IF valid_space(current.shape, current.x, current.y + 1, locked)
       THEN /\ current' = [current EXCEPT !.y = current.y + 1]
            /\ last' = Moved("down", "None", current, current')
            /\ UNCHANGED <<locked, next_piece, fall_speed, score, lines, level,
                           game_over, lk, left, probe>>
       ELSE /\ Lock(current, "down")
            /\ last' = Ev("down")
  /\ UNCHANGED phase

\* K_DOWN
KeyDown ==
  /\ Playing
  /\ current' = IF valid_space(current.shape, current.x, current.y + 1, locked)
                  THEN [current EXCEPT !.y = current.y + 1] ELSE current
  /\ last' = Moved("down", "None", current, current')
  /\ UNCHANGED <<locked, next_piece, fall_speed, score, lines, level, game_over,
                 phase, lk, left, probe>>

\* K_SPACE: hard_drop
KeySpace ==
  /\ Playing
  /\ last' = Ev("space")
  /\ Lock(descend(current, locked), "space")
  /\ UNCHANGED phase

\* The gravity check moving the piece two rows where two rows are free.
Gravity_two_rows ==
  /\ Playing
  /\ IF valid_space(current.shape, current.x, current.y + 1, locked)
       THEN /\ current' = IF valid_space(current.shape, current.x, current.y + 2, locked)
                            THEN [current EXCEPT !.y = current.y + 2]
                            ELSE [current EXCEPT !.y = current.y + 1]
            /\ last' = Moved("gravity", "None", current, current')
            /\ phase' = IF game_over THEN "over" ELSE "frame"
            /\ UNCHANGED <<locked, next_piece, fall_speed, score, lines, level,
                           game_over, lk, left, probe>>
       ELSE /\ Lock(current, "gravity")
            /\ last' = Ev("gravity")
            /\ phase' = IF game_over' THEN "over" ELSE "frame"

\* The end of a frame whose gravity check finds the interval elapsed; then the
\* top of the loop.
Gravity ==
  /\ Playing
  /\ IF valid_space(current.shape, current.x, current.y + 1, locked)
       THEN /\ current' = [current EXCEPT !.y = current.y + 1]
            /\ last' = Moved("gravity", "None", current, current')
            /\ phase' = IF game_over THEN "over" ELSE "frame"
            /\ UNCHANGED <<locked, next_piece, fall_speed, score, lines, level,
                           game_over, lk, left, probe>>
       ELSE /\ Lock(current, "gravity")
            /\ last' = Ev("gravity")
            /\ phase' = IF game_over' THEN "over" ELSE "frame"

\* The end of a frame whose gravity check finds the interval not elapsed; then
\* the top of the loop.
FrameEnd ==
  /\ phase = "frame"
  /\ phase' = IF game_over THEN "over" ELSE "frame"
  /\ UNCHANGED <<session, last, lk, left, probe>>

\* reset() leaving the score as it is.
reset_keeps_score(key1, key2) ==
  /\ locked' = << >>
  /\ current' = Piece(key1)
  /\ next_piece' = Piece(key2)
  /\ fall_speed' = BaseSpeed
  /\ UNCHANGED score
  /\ lines' = 0
  /\ level' = 1
  /\ game_over' = FALSE

\* reset(): the fields it assigns, for the two families get_new_piece draws.
reset(key1, key2) ==
  /\ locked' = << >>
  /\ current' = Piece(key1)
  /\ next_piece' = Piece(key2)
  /\ fall_speed' = BaseSpeed
  /\ score' = 0
  /\ lines' = 0
  /\ level' = 1
  /\ game_over' = FALSE

\* K_r in show_game_over: reset, then run again.
Restart ==
  /\ phase = "over"
  /\ \E key1 \in Families, key2 \in FirstNext : reset(key1, key2)
  /\ phase' = "frame"
  /\ last' = Ev("restart")
  /\ lk' = NoLock
  /\ UNCHANGED <<left, probe>>

\* QUIT or K_ESCAPE, in run and in show_game_over.
Quit ==
  /\ phase \in {"frame", "over"}
  /\ phase' = "quit"
  /\ last' = Ev("quit")
  /\ UNCHANGED <<session, lk, left, probe>>

Next ==
  \/ KeyLeft \/ KeyRight \/ KeyRotate \/ KeyRotateCcw \/ KeyDown \/ KeySpace
  \/ Gravity \/ FrameEnd \/ Restart \/ Quit

\* ---------------------------------------------------------------- starting points
\* A piece lying where it was locked.
At(type, rotation, x, y) == [type |-> type, rotation |-> rotation, x |-> x, y |-> y]

Cells(q) == shape_cells(TETROMINOES[q.type][q.rotation + 1], q.x, q.y)

\* The mapping that holds exactly the given locked pieces.
Stack(pieces) ==
  [ c \in UNION { Cells(q) : q \in pieces } |->
      COLORS[KeyIndex((CHOOSE q \in pieces : c \in Cells(q)).type) + 1] ]

\* A flat I piece in row r from column c on; an upright one in column c with
\* its top in row r.
Flat(c, r)    == At("I", 0, c, r - 1)
Upright(c, r) == At("I", 1, c - 2, r)

Tops == { 4 * i : i \in 0..((ROWS \div 4) - 1) }

\* Columns 0..8 stacked to the top row, column 9 empty.
Tower ==
  { Flat(c, r) : c \in {0, 4}, r \in 0..(ROWS - 1) } \cup { Upright(8, r) : r \in Tops }

\* Columns 2..8 stacked to the top row, columns 0, 1 and 9 empty.
Gap ==
  { Flat(2, r) : r \in 0..(ROWS - 1) } \cup { Upright(c, r) : c \in 6..8, r \in Tops }

\* Rows 16, 17 and 19 lack only column 9; row 18 lacks column 0 as well,
\* under the overhang of the Z piece.  Above them the columns are stacked high.
Notched ==
  { Flat(0, 19), Flat(4, 19), At("Z", 0, 0, 17), At("O", 0, 0, 15) }
    \cup { Flat(4, r) : r \in 16..18 }
    \cup { Upright(8, r) : r \in Tops }
    \cup { Upright(3, r) : r \in {15, 11, 7, 3} }
    \cup { Upright(2, r) : r \in {14, 10, 6, 2} }
    \cup { Upright(c, r) : c \in 0..1, r \in {11, 7, 3} }
    \cup { Upright(c, r) : c \in 4..7, r \in {12, 8, 4, 0} }

\* A session with this mapping after `doubles` clears of two rows each (five
\* O pieces side by side on an empty well), every one scored at the level
\* then held.
RECURSIVE DoublesScore(_)
DoublesScore(doubles) ==
  IF doubles = 0 THEN 0
  ELSE DoublesScore(doubles - 1) + score_table(2) * (((2 * (doubles - 1)) \div 10) + 1)

After(doubles, pieces) ==
  [ locked     |-> Stack(pieces),
    score      |-> DoublesScore(doubles),
    lines      |-> 2 * doubles,
    level      |-> ((2 * doubles) \div 10) + 1,
    fall_speed |-> IF doubles = 0 THEN BaseSpeed
                   ELSE new_fall_speed(((2 * doubles) \div 10) + 1),
    game_over  |-> FALSE ]

\* Sessions a game can be in at the start of a frame: the new game, and games
\* in which the pieces dealt were stacked as above.
Starts ==
  { After(0, {}),
    After(10, Tower),
    After(4, Gap \cup {At("O", 0, 0, 18)}),
    After(0, Gap \cup {At("J", 1, -1, 17)}),
    After(4, Notched),
    After(59, Tower) }

\* The session of a lock_piece record.
Kept(r) ==
  [ locked |-> r.locked, score |-> r.score, lines |-> r.lines, level |-> r.level,
    fall_speed |-> r.fall_speed, game_over |-> r.game_over ]

\* A game in the middle of a frame, right after a hard drop of the piece of
\* family `key` on the session s.
Dropped(key, s) ==
  LET p == descend(Piece(key), s.locked)
      r == lock_piece(p, s)
  IN  [ session |-> Kept(r),
        last    |-> Ev("space"),
        lk      |-> [by |-> "space", piece |-> p, merged |-> r.merged,
                     cleared |-> r.cleared] ]

\* The games a run starts from: each session of Starts at the top of a frame,
\* and the frame in which a hard drop on the tower has just ended the game.
Games ==
  { [session |-> s, last |-> Ev("start"), lk |-> NoLock] : s \in Starts }
    \cup { Dropped("O", After(10, Tower)) }

Init ==
  \E g \in Games, key1 \in Families, key2 \in FirstNext :
    /\ locked = g.session.locked
    /\ score = g.session.score
    /\ lines = g.session.lines
    /\ level = g.session.level
    /\ fall_speed = g.session.fall_speed
    /\ game_over = g.session.game_over
    /\ current = Piece(key1)
    /\ next_piece = Piece(key2)
    /\ phase = "frame"
    /\ last = g.last
    /\ lk = g.lk
    /\ left = MaxLocks
    /\ probe = NoProbe

Spec == Init /\ [][Next]_vars

\* The step is a gravity check that found the interval elapsed: the steps of
\* Next that are steps of Gravity.
GravityTick == last'.ev = "gravity" /\ ~(UNCHANGED <<session, last, lk, left>>)

\* The game with a clock that keeps running: the frame loop reads
\* get_ticks() in every frame, so the interval elapses again and again and
\* the gravity check (lines 325-334) is made as long as the game is played.
\* This is weak fairness of Gravity, written out: Gravity is enabled exactly
\* when Playing holds, and its steps are the gravity ticks.
SpecFair == Spec /\ ([]<>(~Playing) \/ []<><<GravityTick>>_vars)

\* ---------------------------------------------------------------- clear_lines on its own
\* The session while no game runs.
NoGame ==
  /\ locked = << >>
  /\ current = Piece("I")
  /\ next_piece = Piece("I")
  /\ fall_speed = BaseSpeed
  /\ score = 0
  /\ lines = 0
  /\ level = 1
  /\ game_over = FALSE
  /\ phase = "none"
  /\ last = Ev("none")
  /\ lk = NoLock
  /\ left = 0

\* The mappings given to clear_lines have cells in MaxRows successive rows.
MaxRows == 5

RowKinds == {"empty", "full", "notch", "comb"}

\* The columns a row of a kind occupies.
Columns(kind) ==
  CASE kind = "empty" -> {}
    [] kind = "full"  -> 0..(COLUMNS - 1)
    [] kind = "notch" -> 0..(COLUMNS - 2)
    [] kind = "comb"  -> { x \in 0..(COLUMNS - 1) : x % 3 = 1 }

\* The mapping whose rows top, top + 1, ... are of the given kinds; cells one
\* above the other, up to six rows apart, differ in color.
Rows(top, kinds) ==
  [ c \in UNION { { <<x, top + i - 1>> : x \in Columns(kinds[i]) } : i \in DOMAIN kinds }
      |-> COLORS[((c[1] + 3 * c[2]) % 7) + 1] ]

InitClear ==
  /\ NoGame
  /\ \E top \in {0, ROWS - MaxRows}, kinds \in [1..MaxRows -> RowKinds] :
       probe = [ fn |-> "clear_lines", before |-> Rows(top, kinds),
                 locked |-> Rows(top, kinds), done |-> FALSE, ret |-> 0,
                 rets |-> << >> ]

\* cleared = clear_lines(make_grid(locked), locked)
CallClearLines ==
  /\ probe.fn = "clear_lines"
  /\ ~probe.done
  /\ \E r \in {clear_lines(make_grid(probe.locked), probe.locked)} :
       probe' = [probe EXCEPT !.locked = r.locked, !.ret = r.count, !.done = TRUE,
                              !.rets = <<r.count>>]
  /\ UNCHANGED <<session, phase, last, lk, left>>

\* clear_lines called once more, directly after it returned, on the grid
\* rebuilt from the mapping.
CallClearLinesAgain ==
  /\ probe.fn = "clear_lines"
  /\ probe.done
  /\ Len(probe.rets) = 1
  /\ \E r \in {clear_lines(make_grid(probe.locked), probe.locked)} :
       probe' = [probe EXCEPT !.before = probe.locked, !.locked = r.locked,
                              !.ret = r.count, !.rets = Append(probe.rets, r.count)]
  /\ UNCHANGED <<session, phase, last, lk, left>>

SpecClear == InitClear /\ [][CallClearLines \/ CallClearLinesAgain]_vars

\* ---------------------------------------------------------------- valid_space on its own
\* The anchors given to valid_space lie up to Margin cells outside the well.
Margin == 4

\* A mapping with cells above the well, among them one above an empty cell
\* and one above an occupied cell.
Scattered ==
  [ c \in { <<4, -1>>, <<5, -2>>, <<5, 0>>, <<3, 2>>, <<6, 5>>, <<0, 19>>, <<9, 19>>,
            <<9, 0>>, <<0, -3>> } |-> COLORS[(c[1] % 7) + 1] ]

Mappings == { << >>, Scattered, Stack(Notched), Stack(Gap) }

InitValid ==
  /\ NoGame
  /\ \E key \in Families, offset_x \in (0 - Margin)..(COLUMNS - 1 + Margin),
        offset_y \in (0 - Margin - 1)..(ROWS - 1 + Margin), lkd \in Mappings :
       \E rotation \in 1..Len(TETROMINOES[key]) :
         probe = [ fn |-> "valid_space", shape |-> TETROMINOES[key][rotation],
                   offset_x |-> offset_x, offset_y |-> offset_y, locked |-> lkd,
                   done |-> FALSE, ret |-> FALSE ]

\* valid_space(shape, offset_x, offset_y, locked)
CallValidSpace ==
  /\ probe.fn = "valid_space"
  /\ ~probe.done
  /\ probe' = [probe EXCEPT
                  !.ret = valid_space(probe.shape, probe.offset_x, probe.offset_y,
                                      probe.locked),
                  !.done = TRUE]
  /\ UNCHANGED <<session, phase, last, lk, left>>

SpecValid == InitValid /\ [][CallValidSpace]_vars

\* ---------------------------------------------------------------- Piece.rotate on its own
\* Every rotation state of the family fits at the anchor.
OpenField(key, x, y, lkd) ==
  \A i \in 1..Len(TETROMINOES[key]) : valid_space(TETROMINOES[key][i], x, y, lkd)

InitTurn ==
  /\ NoGame
  /\ \E key \in Families, x \in (0 - Margin)..(COLUMNS - 1 + Margin),
        y \in (0 - Margin - 1)..(ROWS - 1 + Margin), lkd \in Mappings :
       /\ OpenField(key, x, y, lkd)
       /\ probe = [ fn |-> "rotate", start |-> [Piece(key) EXCEPT !.x = x, !.y = y],
                    piece |-> [Piece(key) EXCEPT !.x = x, !.y = y], locked |-> lkd,
                    turns |-> 0, ret |-> TRUE ]

\* piece.rotate(locked), as often as the family has rotation states.
CallRotate ==
  /\ probe.fn = "rotate"
  /\ probe.turns < Len(TETROMINOES[probe.piece.type])
  /\ \E r \in {rotate(probe.piece, probe.locked)} :
       probe' = [probe EXCEPT !.piece = r.piece, !.ret = r.ok, !.turns = probe.turns + 1]
  /\ UNCHANGED <<session, phase, last, lk, left>>

SpecTurn == InitTurn /\ [][CallRotate]_vars

\* ---------------------------------------------------------------- claims
\* C1: once game_over is set, no gravity step and no input command changes the
\* board, the current or next piece, the score, the line count or the level;
\* only restart or quit has any effect.
C1_GameOverFreezes ==
  [][ (game_over /\ last'.ev \notin {"restart", "quit"})
        => UNCHANGED <<locked, current, next_piece, score, lines, level>> ]_vars
\* The rows of a mapping that hold a cell in every column.
FullRows(b) ==
  { y \in 0..(ROWS - 1) : \A x \in 0..(COLUMNS - 1) : <<x, y>> \in DOMAIN b }

\* The number of full rows of b below row y.
FullBelow(b, y) == Cardinality({ f \in FullRows(b) : f > y })

\* C2: clear_lines removes the cells of every full row, moves every cell
\* (x, y) of another row to (x, y + k) with its color, k the number of full
\* rows of greater index, leaves no other cell, and returns the number of
\* full rows.
C2_StandardCollapse ==
  (probe.fn = "clear_lines" /\ probe.done) =>
    LET b == probe.before
        a == probe.locked
        kept == { c \in DOMAIN b : c[2] \notin FullRows(b) }
    IN  /\ \A c \in kept :
             /\ <<c[1], c[2] + FullBelow(b, c[2])>> \in DOMAIN a
                /\ a[<<c[1], c[2] + FullBelow(b, c[2])>>] = b[c]
        /\ \A d \in DOMAIN a :
             \E c \in kept : d = <<c[1], c[2] + FullBelow(b, c[2])>>
        /\ probe.ret = Cardinality(FullRows(b))

\* clear_lines has returned from a mapping with two full rows that are not
\* adjacent, cells in the row between them and cells above both.
C2_Witness ==
  /\ probe.fn = "clear_lines"
  /\ probe.done
  /\ \E y1, y2 \in FullRows(probe.before) :
       /\ y1 + 1 < y2
       /\ \E c \in DOMAIN probe.before : c[2] = y1 + 1 /\ c[2] \notin FullRows(probe.before)
       /\ \E c \in DOMAIN probe.before : c[2] < y1 /\ c[2] \notin FullRows(probe.before)

\* C3: valid_space returns true if and only if every occupied cell of the
\* shape, translated by the anchor, has its column in [0, COLUMNS), its row
\* below ROWS and, when its row is >= 0, is not a key of the mapping.
C3_ValidSpaceIff ==
  (probe.fn = "valid_space" /\ probe.done) =>
    (probe.ret <=>
       \A i \in 1..Len(probe.shape) : \A j \in 1..Len(probe.shape[i]) :
          probe.shape[i][j] = 1 =>
            /\ 0 <= probe.offset_x + j - 1
            /\ probe.offset_x + j - 1 < COLUMNS
            /\ probe.offset_y + i - 1 < ROWS
            /\ (probe.offset_y + i - 1 >= 0 =>
                  <<probe.offset_x + j - 1, probe.offset_y + i - 1>>
                     \notin DOMAIN probe.locked))

\* valid_space has returned true for a shape with an occupied cell above the
\* well on a key of the mapping and another cell inside the well.
C3_Witness ==
  /\ probe.fn = "valid_space"
  /\ probe.done
  /\ probe.ret
  /\ \E i \in 1..Len(probe.shape) : \E j \in 1..Len(probe.shape[i]) :
       /\ probe.shape[i][j] = 1
       /\ probe.offset_y + i - 1 < 0
       /\ <<probe.offset_x + j - 1, probe.offset_y + i - 1>> \in DOMAIN probe.locked
  /\ \E i \in 1..Len(probe.shape) : \E j \in 1..Len(probe.shape[i]) :
       probe.shape[i][j] = 1 /\ probe.offset_y + i - 1 >= 0

\* The cells a piece occupies, row by row of its pattern.
Occupied(p) ==
  { <<p.x + j - 1, p.y + i - 1>> :
      <<i, j>> \in { ij \in (1..Len(p.shape)) \X (1..Len(p.shape[1])) :
                       p.shape[ij[1]][ij[2]] = 1 } }

\* The step is a call of lock_piece.
Locks == left' = left - 1

\* C4: game_over is set by every lock of a piece with a cell at a row < 0, by
\* gravity or by hard drop, by no lock of a piece with all cells at rows >= 0,
\* and by no other operation.
C4_GameOverByLockAboveWell ==
  [][ /\ (Locks /\ last'.ev = "gravity") => lk'.piece = current
      /\ (Locks /\ (\E c \in Occupied(lk'.piece) : c[2] < 0)) => game_over'
      /\ (Locks /\ (\A c \in Occupied(lk'.piece) : c[2] >= 0)) => game_over' = game_over
      /\ ~Locks => (game_over' => game_over) ]_vars

\* A gravity step has locked a piece with a cell above the well and a cell
\* inside it, and the game is over.
C4_Witness ==
  /\ lk.by = "gravity"
  /\ last.ev = "gravity"
  /\ \E c \in Occupied(lk.piece) : c[2] < 0
  /\ \E c \in Occupied(lk.piece) : c[2] >= 0
  /\ game_over
  /\ phase = "over"

\* C5: right after the merge loop of a lock every occupied cell of the locked
\* piece is a key of the mapping.
C5_EveryCellWritten ==
  [][ Locks => \A c \in Occupied(lk'.piece) : c \in DOMAIN lk'.merged ]_vars

\* C5 as amended: right after the merge loop every cell of the locked piece at
\* a row >= 0 is a key of the mapping with the piece's color as value, and no
\* cell of it at a row < 0 is a key.
C5_CellsInsideWritten ==
  [][ Locks =>
        \A c \in Occupied(lk'.piece) :
           IF c[2] >= 0
             THEN /\ c \in DOMAIN lk'.merged
                  /\ lk'.merged[c] = COLORS[KeyIndex(lk'.piece.type) + 1]
             ELSE c \notin DOMAIN lk'.merged ]_vars

\* A hard drop has locked a piece with cells above the well and cells inside.
C5_Witness ==
  /\ lk.by = "space"
  /\ \E c \in Occupied(lk.piece) : c[2] < 0
  /\ \E c \in Occupied(lk.piece) : c[2] >= 0 /\ c \in DOMAIN lk.merged

\* The reward of a clear of k rows.
Reward(k) == <<40, 100, 300, 1200>>[k]

\* C6: a lock that clears k rows at once, k in 1..4, adds Reward(k) times the
\* level held before the lock to the score; a lock that clears no row leaves
\* score, lines and level unchanged.
C6_ScoreByTableAndLevel ==
  [][ Locks =>
        LET k == Cardinality(FullRows(lk'.merged))
        IN  /\ lk'.cleared = k
            /\ k \in 1..4 => score' = score + Reward(k) * level
            /\ k = 0 => UNCHANGED <<score, lines, level>> ]_vars

\* A lock at level 3, after 20 lines, has cleared four rows and added 3600 to
\* the score of 1500.
C6_Witness ==
  lk.by /= "none" /\ lk.cleared = 4 /\ lines = 24 /\ level = 3 /\ score = 1500 + 3600

\* The greater of two numbers.
Larger(a, b) == IF a > b THEN a ELSE b

\* C7: in every state level = floor(lines / 10) + 1 and the fall interval, in
\* whole milliseconds, is max(50, 600 - (level - 1) * 50): 550 once exactly 10
\* lines are cleared, 50 from level 12 on, never greater at a greater level.
C7_LevelAndInterval ==
  /\ level = (lines \div 10) + 1
  /\ interval(fall_speed) = Larger(50, 600 - (level - 1) * 50)
  /\ lines = 10 => interval(fall_speed) = 550
  /\ level >= 12 => interval(fall_speed) = 50

\* The pattern of the piece p turned by d rotation states.
Pattern(p, d) ==
  TETROMINOES[p.type][((p.rotation + d) % Len(TETROMINOES[p.type])) + 1]

\* The current piece, turned by d rotation states, fits dx columns aside.
Fits(d, dx) == valid_space(Pattern(current, d), current.x + dx, current.y, locked)

\* Where a rotation by d rotation states looks for room, in this order.
Tries == <<0, -1, 1, -2, 2>>

\* What a rotation by d rotation states does: the first of Tries that fits is
\* applied and true returned; false is returned if none fits.
Rotation(d) ==
  LET first == { i \in 1..5 : Fits(d, Tries[i]) /\ \A j \in 1..(i - 1) : ~Fits(d, Tries[j]) }
  IN  IF first = {}
        THEN last'.ret = "False"
        ELSE /\ last'.ret = "True"
             /\ \E i \in first :
                  /\ current'.x = current.x + Tries[i]
                  /\ current'.y = current.y
                  /\ current'.rotation = (current.rotation + d) % Len(TETROMINOES[current.type])
                  /\ current'.shape = Pattern(current, d)
                  /\ current'.type = current.type

\* C8: rotate and rotate_ccw apply the next pattern at the anchor if it is
\* valid there, else at the first of the column offsets -1, +1, -2, +2 at
\* which it is valid, the row unchanged, and return true; they return false
\* only if the pattern is valid at none of the five positions.
C8_RotationKickOrder ==
  [][ (KeyRotate => Rotation(1)) /\ (KeyRotateCcw => Rotation(-1)) ]_vars

\* A clockwise rotation has been applied one column to the right: the pattern
\* fitted neither in place nor one column to the left.
C8_Witness ==
  last.ev = "cw" /\ last.ret = "True" /\ last.dx = 1

\* The fields of the session an ineffective command leaves alone.
Untouched ==
  UNCHANGED <<current, next_piece, locked, score, lines, level, game_over, fall_speed,
              lk, left>>

\* C9: a move left, a move right or a soft drop whose target position is
\* invalid, and a rotation for which no position is valid, leave the piece,
\* the board, score, lines, level and game_over unchanged; a blocked soft
\* drop does not lock the piece.
C9_IllegalActionsAreNoOps ==
  [][ /\ (KeyLeft /\ ~valid_space(current.shape, current.x - 1, current.y, locked))
           => Untouched
      /\ (KeyRight /\ ~valid_space(current.shape, current.x + 1, current.y, locked))
           => Untouched
      /\ (KeyDown /\ ~valid_space(current.shape, current.x, current.y + 1, locked))
           => (Untouched /\ ~Locks)
      /\ (KeyRotate /\ \A i \in 1..5 : ~Fits(1, Tries[i])) => Untouched
      /\ (KeyRotateCcw /\ \A i \in 1..5 : ~Fits(-1, Tries[i])) => Untouched ]_vars

\* A soft drop has been blocked: the piece rests on the stack inside the
\* well, unlocked.
C9_Witness ==
  /\ last.ev = "down"
  /\ last.dy = 0
  /\ lk = NoLock
  /\ current.y >= 0
  /\ ~valid_space(current.shape, current.x, current.y + 1, locked)

\* The row at which the current piece, descending straight, first cannot
\* take one more step.
Landing ==
  CHOOSE y \in current.y..ROWS :
    /\ ~valid_space(current.shape, current.x, y + 1, locked)
    /\ \A z \in current.y..(y - 1) : valid_space(current.shape, current.x, z + 1, locked)

\* C10: a hard drop takes at most ROWS + 4 downward steps and makes exactly
\* one lock, of the current piece at the lowest position of its straight
\* descent.
C10_HardDropLocksAtLanding ==
  [][ (Playing /\ last'.ev = "space" /\ phase' = "frame") =>
        /\ Landing - current.y <= ROWS + 4
        /\ Locks
        /\ lk'.by = "space"
        /\ lk'.piece = [current EXCEPT !.y = Landing]
        /\ current' = next_piece ]_vars

\* A hard drop has locked an upright I piece on the floor of the well, ROWS
\* steps below its spawn row.
C10_Witness ==
  /\ lk.by = "space"
  /\ lk.piece.type = "I"
  /\ lk.piece.rotation = 1
  /\ lk.piece.y = ROWS - 4

\* C11: after every lock, and so in every state between operations, no row
\* of the well is fully occupied in the mapping.
C11_NoFullRowLeft ==
  FullRows(locked) = {}

\* A lock has cleared three rows, the mapping still holds cells, and no row
\* of it is full.
C11_Witness ==
  /\ lk.by /= "none"
  /\ lk.cleared = 3
  /\ Cardinality(FullRows(lk.merged)) = 3
  /\ DOMAIN locked /= {}
  /\ FullRows(locked) = {}

\* C12: clear_lines applied to a mapping without a full row returns 0 and
\* leaves the mapping unchanged; so does a second call directly after any
\* call.
C12_ClearLinesIdempotent ==
  [][ /\ (probe.fn = "clear_lines" /\ FullRows(probe.locked) = {})
           => (probe'.ret = 0 /\ probe'.locked = probe.locked)
      /\ (probe.fn = "clear_lines" /\ probe.done)
           => (probe'.ret = 0 /\ probe'.locked = probe.locked) ]_vars

\* clear_lines has cleared two rows or more of a mapping and, called again,
\* has returned 0 and left the cells that remained.
C12_Witness ==
  /\ probe.fn = "clear_lines"
  /\ Len(probe.rets) = 2
  /\ probe.rets[1] >= 2
  /\ probe.rets[2] = 0
  /\ probe.locked = probe.before
  /\ DOMAIN probe.locked /= {}

\* The number of rotation states of a family: 4 for J, L, T, 2 for I, S, Z,
\* 1 for O.
States(key) ==
  CASE key \in {"J", "L", "T"} -> 4
    [] key \in {"I", "S", "Z"} -> 2
    [] key = "O" -> 1

\* C13: in an open field the clockwise rotation, applied as often as the
\* family has rotation states, returns the piece to its rotation index,
\* pattern and anchor; no step moves the anchor.
C13_FullTurnIsIdentity ==
  probe.fn = "rotate" =>
    /\ probe.piece.x = probe.start.x
    /\ probe.piece.y = probe.start.y
    /\ probe.ret
    /\ probe.piece.rotation = probe.turns % States(probe.start.type)
    /\ probe.turns = States(probe.start.type) => probe.piece = probe.start
    /\ probe.turns <= States(probe.start.type)

\* A T piece inside the well, among locked cells, has been rotated four
\* times.
C13_Witness ==
  /\ probe.fn = "rotate"
  /\ probe.start.type = "T"
  /\ probe.turns = 4
  /\ probe.start.y >= 0
  /\ DOMAIN probe.locked /= {}
  /\ probe.piece = probe.start

\* C14: in every state every key (column, row) of the mapping has
\* 0 <= column < COLUMNS and row < ROWS.
C14_KeysInsideWell ==
  \A c \in DOMAIN locked : 0 <= c[1] /\ c[1] < COLUMNS /\ c[2] < ROWS

\* A lock has cleared three rows that were not adjacent, and the rows that
\* remained have been shifted down to the floor of the well.
C14_Witness ==
  /\ lk.by /= "none"
  /\ lk.cleared = 3
  /\ \E y \in FullRows(lk.merged) : y + 1 < ROWS /\ y + 1 \notin FullRows(lk.merged)
  /\ \E c \in DOMAIN locked : c[2] = ROWS - 1

\* The piece is as it was spawned: rotation index 0, the first pattern of
\* its family, column floor(COLUMNS / 2) - floor(width / 2), row -height.
Spawned(p) ==
  /\ p.rotation = 0
  /\ p.shape = TETROMINOES[p.type][1]
  /\ p.x = (COLUMNS \div 2) - (Len(p.shape[1]) \div 2)
  /\ p.y = 0 - Len(p.shape)

\* C15: after every lock the current piece is the piece that was the next
\* piece, at its spawn anchor with rotation index 0, and a new next piece is
\* spawned; the next piece is never moved or rotated while it waits.
C15_LookaheadHandOff ==
  [][ /\ Locks => (current' = next_piece /\ Spawned(current') /\ Spawned(next_piece'))
      /\ (~Locks /\ last'.ev /= "restart") => next_piece' = next_piece
      /\ Spawned(next_piece) ]_vars

\* A gravity step has locked an S piece; the I piece that was next is the
\* current piece, at its spawn anchor, and a T piece is next.
C15_Witness ==
  /\ lk.by = "gravity"
  /\ lk.piece.type = "S"
  /\ last.ev = "gravity"
  /\ current.type = "I"
  /\ Spawned(current)
  /\ next_piece.type = "T"

\* C16: a restart is made only in the game-over loop and sets the whole
\* session to that of a new game: empty board, score 0, lines 0, level 1,
\* base fall interval, game_over cleared, current and next piece freshly
\* spawned; control is in the frame loop again.
C16_RestartIsNewGame ==
  [][ (last'.ev = "restart" /\ last.ev /= "restart") =>
        /\ phase = "over"
        /\ game_over
        /\ DOMAIN locked' = {}
        /\ score' = 0
        /\ lines' = 0
        /\ level' = 1
        /\ interval(fall_speed') = 600
        /\ ~game_over'
        /\ Spawned(current')
        /\ Spawned(next_piece')
        /\ phase' = "frame" ]_vars

\* A game has ended, a restart has just been made, and the new game can be
\* played: the board is empty and both pieces are at their spawn anchors.
C16_Witness ==
  /\ last.ev = "restart"
  /\ phase = "frame"
  /\ ~game_over
  /\ DOMAIN locked = {}
  /\ score = 0
  /\ level = 1
  /\ Spawned(current)
  /\ Playing

\* C17: at every lock the number of rows cleared is between 0 and 4, so
\* the score table is never asked for a non-zero count it does not hold.
C17_ClearedAtMostFour ==
  lk.by /= "none" =>
    /\ lk.cleared \in 0..4
    /\ (lk.cleared /= 0 => score_table(lk.cleared) /= 0)

\* A lock has cleared four rows at once.
C17_Witness == lk.by /= "none" /\ lk.cleared = 4

\* C18: in every reachable state the current piece is at a valid position:
\* none of its cells is outside the column range, at row >= ROWS, or on an
\* occupied cell of the board at a row >= 0.
C18_CurrentPieceValid ==
  \A i \in 1..Len(current.shape) : \A j \in 1..Len(current.shape[i]) :
     current.shape[i][j] = 1 =>
       /\ 0 <= current.x + j - 1
       /\ current.x + j - 1 < COLUMNS
       /\ current.y + i - 1 < ROWS
       /\ (current.y + i - 1 >= 0 =>
             <<current.x + j - 1, current.y + i - 1>> \notin DOMAIN locked)

\* A rotation has been made with a kick of two columns while the piece was
\* inside the well with blocks on the board.
C18_Witness ==
  /\ last.ev \in {"cw", "ccw"}
  /\ last.dx \in {-2, 2}
  /\ current.y >= 0
  /\ DOMAIN locked /= {}

\* C19: a freshly spawned piece of every family has all its cells at rows
\* < 0 and at columns inside [0, COLUMNS), and valid_space returns true for
\* it at its spawn anchor whatever the mapping holds, cells above the well
\* included: a spawn is never blocked.
C19_SpawnAlwaysValid ==
  /\ \A key \in Families :
        \A c \in Occupied(Piece(key)) : c[2] < 0 /\ 0 <= c[1] /\ c[1] < COLUMNS
  /\ (probe.fn = "valid_space" /\ probe.done) =>
        \A key \in Families :
           ( /\ probe.shape = Piece(key).shape
             /\ probe.offset_x = Piece(key).x
             /\ probe.offset_y = Piece(key).y ) => probe.ret

\* valid_space has returned true for the I piece at its spawn anchor over a
\* mapping that holds a block under one of its cells' columns at row 0 and
\* blocks above the well.
C19_Witness ==
  /\ probe.fn = "valid_space"
  /\ probe.done
  /\ probe.ret
  /\ probe.shape = Piece("I").shape
  /\ probe.offset_x = Piece("I").x
  /\ probe.offset_y = Piece("I").y
  /\ <<5, 0>> \in DOMAIN probe.locked
  /\ <<5, -2>> \in DOMAIN probe.locked

\* The rows the current piece has come down since it was spawned.
Fallen == current.y - Piece(current.type).y

\* C20: while a piece is the current piece its anchor row never decreases,
\* and each gravity tick either moves it down by exactly one row, leaving
\* everything else, or locks it; the piece is never more than ROWS + 3 rows
\* below its spawn anchor, so that it is locked within ROWS + 4 gravity
\* ticks; and with gravity ticks that keep coming every piece is locked,
\* unless the game is quit or is over already when the piece becomes current.
C20_FallsUntilLocked ==
  /\ [][ /\ (~Locks /\ last'.ev /= "restart") =>
              (current'.type = current.type /\ current'.y >= current.y)
         /\ GravityTick =>
              \/ Locks /\ lk'.by = "gravity" /\ lk'.piece = current
              \/ /\ current' = [current EXCEPT !.y = current.y + 1]
                 /\ UNCHANGED <<locked, next_piece, score, lines, level, left>> ]_vars
  /\ [](Fallen \in 0..(ROWS + 3))
  /\ \A n \in 1..MaxLocks :
        (Playing /\ left = n) ~> (left < n \/ phase \in {"over", "quit"})

\* An I piece has come down the whole well lying flat, ROWS + 2 rows from
\* its spawn anchor, interleaved with moves, and a gravity tick has locked
\* it on the floor.
C20_Witness ==
  /\ lk.by = "gravity"
  /\ last.ev = "gravity"
  /\ lk.piece.type = "I"
  /\ lk.piece.y - Piece("I").y = ROWS + 2
  /\ lk.piece.x /= Piece("I").x
====
